---- MODULE Spec2Model ----
(***************************************************************************)
(* Model of analyse.py, the Bash xtrace profiler: main() reads a trace     *)
(* log, parse_log turns its lines into events, attribute_time walks the    *)
(* events and charges each inter-event delta to the deepest active         *)
(* function, build_summary ranks the accumulators and the renderers write  *)
(* them out.                                                               *)
(*                                                                         *)
(* Text is a sequence of one-character strings.  Time is counted in ticks  *)
(* of 10^-MinFracDigits seconds (microseconds), so that float() of a       *)
(* timestamp with MinFracDigits fractional digits is an integer and the    *)
(* sums are the exact real sums.  Quotients (percentages, averages) are    *)
(* kept as pairs <<numerator, denominator>>.                               *)
(***************************************************************************)
EXTENDS Integers, Sequences, FiniteSets, TLC

(***************************************************************************)
(* Bounds of the explored inputs.                                          *)
(***************************************************************************)
MaxLines == 3
MaxDepth == 3
MaxTs == 1

(***************************************************************************)
(* Characters.                                                             *)
(***************************************************************************)
DigitSeq == <<"0", "1", "2", "3", "4", "5", "6", "7", "8", "9">>
UpperSeq == <<"A", "B", "C", "D", "E", "F", "G", "H", "I", "J", "K", "L", "M",
              "N", "O", "P", "Q", "R", "S", "T", "U", "V", "W", "X", "Y", "Z">>
LowerSeq == <<"a", "b", "c", "d", "e", "f", "g", "h", "i", "j", "k", "l", "m",
              "n", "o", "p", "q", "r", "s", "t", "u", "v", "w", "x", "y", "z">>

\* The characters that occur in the model, in code point order.
AsciiOrder == <<"\t", "\n", " ", "(", ")", "+", "-", ".">> \o DigitSeq
              \o <<":", "<", ">">> \o UpperSeq \o <<"_">> \o LowerSeq

Range(s) == {s[k] : k \in 1..Len(s)}

\* Position of a character in AsciiOrder: order-isomorphic to ord().
Ord(c) == CHOOSE k \in 1..Len(AsciiOrder) : AsciiOrder[k] = c

DigitChars == Range(DigitSeq)
\* \s of the regular expressions
SpaceChars == {" ", "\t", "\n"}
PlusChars == {"+"}
\* [A-Za-z0-9_-] of FUNC_MARKER_RE
NameChars == Range(UpperSeq) \cup Range(LowerSeq) \cup DigitChars \cup {"_", "-"}

\* The number of fractional digits LINE_RE demands (\d{6,}).
MinFracDigits == 6

RECURSIVE Pow10(_)
Pow10(n) == IF n = 0 THEN 1 ELSE 10 * Pow10(n - 1)

\* Length of the longest run of characters of cls in s that starts at from:
\* what a greedy cls+ or cls* consumes.
RECURSIVE RunLen(_, _, _)
RunLen(s, from, cls) ==
    IF from <= Len(s) /\ s[from] \in cls
    THEN 1 + RunLen(s, from + 1, cls)
    ELSE 0

\* str.rstrip("\n")
RECURSIVE RStripNewline(_)
RStripNewline(s) ==
    IF s # <<>> /\ s[Len(s)] = "\n"
    THEN RStripNewline(SubSeq(s, 1, Len(s) - 1))
    ELSE s

DigitVal(c) == (CHOOSE k \in 1..Len(DigitSeq) : DigitSeq[k] = c) - 1

\* Value of the decimal digits s[from .. from+n-1].
RECURSIVE DigitsVal(_, _, _)
DigitsVal(s, from, n) ==
    IF n = 0 THEN 0
    ELSE 10 * DigitsVal(s, from, n - 1) + DigitVal(s[from + n - 1])

\* float(ts) in ticks: the integer part and the first MinFracDigits digits of
\* the fraction (the inputs of the model carry exactly MinFracDigits).
TsValue(s, intFrom, intLen, fracFrom) ==
    DigitsVal(s, intFrom, intLen) * Pow10(MinFracDigits)
    + DigitsVal(s, fracFrom, MinFracDigits)

\* LINE_RE.match(raw): ^(\++)\s+(\d+\.\d{6,})\s+(.*)$
\* The character classes of adjacent pieces are disjoint, so the greedy match
\* is the only one.
LINE_RE(raw) ==
    LET np == RunLen(raw, 1, PlusChars)
        p1 == 1 + np
        nw == RunLen(raw, p1, SpaceChars)
        p2 == p1 + nw
        ni == RunLen(raw, p2, DigitChars)
        p3 == p2 + ni
        nf == RunLen(raw, p3 + 1, DigitChars)
        p4 == p3 + 1 + nf
        nw2 == RunLen(raw, p4, SpaceChars)
        p5 == p4 + nw2
        ok == /\ np >= 1
              /\ nw >= 1
              /\ ni >= 1
              /\ p3 <= Len(raw)
              /\ raw[p3] = "."
              /\ nf >= MinFracDigits
              /\ nw2 >= 1
    IN  IF ok
        THEN [ok |-> TRUE, pluses |-> np,
              ts |-> TsValue(raw, p2, ni, p3 + 1),
              rest |-> SubSeq(raw, p5, Len(raw))]
        ELSE [ok |-> FALSE, pluses |-> 0, ts |-> 0, rest |-> <<>>]

\* Python's None (also the empty string: both are falsy).
None == <<>>

\* FUNC_MARKER_RE.search(rest): the leftmost position where a run of name
\* characters is followed by "():"; the name, or None.
RECURSIVE MarkerFrom(_, _)
MarkerFrom(rest, p) ==
    IF p > Len(rest) THEN None
    ELSE LET n == RunLen(rest, p, NameChars)
             q == p + n
         IN  IF /\ n >= 1
                /\ q + 2 <= Len(rest)
                /\ rest[q] = "("
                /\ rest[q + 1] = ")"
                /\ rest[q + 2] = ":"
             THEN SubSeq(rest, p, q - 1)
             ELSE MarkerFrom(rest, p + 1)

\* A marker expression that captures the token behind "():" instead.
RECURSIVE AfterFrom(_, _)
AfterFrom(rest, p) ==
    IF p + 2 > Len(rest) THEN None
    ELSE LET q == p + 3 + RunLen(rest, p + 3, SpaceChars)
             n == RunLen(rest, q, NameChars)
         IN  IF /\ rest[p] = "("
                /\ rest[p + 1] = ")"
                /\ rest[p + 2] = ":"
                /\ n >= 1
             THEN SubSeq(rest, q, q + n - 1)
             ELSE AfterFrom(rest, p + 1)

FUNC_MARKER_RE_After(rest) == AfterFrom(rest, 1)

FUNC_MARKER_RE(rest) == MarkerFrom(rest, 1)

\* parse_log over lines[k..]: one ParsedLine (i, depth, ts, func, rest) per
\* matching line, i counted from 0.
RECURSIVE ParseFrom(_, _)
ParseFrom(ls, k) ==
    IF k > Len(ls) THEN <<>>
    ELSE LET raw == RStripNewline(ls[k])
             m == LINE_RE(raw)
         IN  IF ~m.ok THEN ParseFrom(ls, k + 1)
             ELSE <<[i |-> k - 1, depth |-> m.pluses, ts |-> m.ts,
                     func |-> FUNC_MARKER_RE(m.rest), rest |-> m.rest]>>
                  \o ParseFrom(ls, k + 1)

parse_log(ls) == ParseFrom(ls, 1)

(***************************************************************************)
(* Dictionaries (dict, defaultdict, Counter): a sequence of entries        *)
(* [k, v] in insertion order, which is the order items() iterates in.      *)
(***************************************************************************)
DictKeys(d) == {d[n].k : n \in 1..Len(d)}

DictGet(d, key, default) ==
    IF key \in DictKeys(d)
    THEN d[CHOOSE n \in 1..Len(d) : d[n].k = key].v
    ELSE default

\* d[key] += dv on a defaultdict(float) or a Counter
DictAdd(d, key, dv) ==
    IF key \in DictKeys(d)
    THEN [n \in 1..Len(d) |->
             IF d[n].k = key THEN [k |-> key, v |-> d[n].v + dv] ELSE d[n]]
    ELSE Append(d, [k |-> key, v |-> dv])

Max(a, b) == IF a >= b THEN a ELSE b
Min(a, b) == IF a <= b THEN a ELSE b

(***************************************************************************)
(* attribute_time                                                          *)
(***************************************************************************)
\* The bucket of time that no function claims.
NO_FUNC == <<"<", "n", "o", "-", "f", "u", "n", "c", ">">>

\* for d in range(from, 0, -1): if d in current_func_by_depth: return it
RECURSIVE ActiveFrom(_, _)
ActiveFrom(cur, d) ==
    IF d < 1 THEN None
    ELSE IF d \in DOMAIN cur THEN cur[d]
    ELSE ActiveFrom(cur, d - 1)

\* The search run upwards from depth 1.
active_func_shallowest(cur, depth) ==
    LET at == {d \in DOMAIN cur : d <= depth}
    IN  IF at = {} THEN None
        ELSE cur[CHOOSE d \in at : \A o \in at : d <= o]

\* The search started one level too high: range(depth - 1, 0, -1).
active_func_skip_own(cur, depth) == ActiveFrom(cur, depth - 1)

active_func(cur, depth) == ActiveFrom(cur, depth)

\* A marker that does not replace the one already recorded at its depth.
RecordMarker_KeepFirst(cur, depth, func) ==
    IF func # None /\ depth \notin DOMAIN cur
    THEN [d \in DOMAIN cur \cup {depth} |-> IF d = depth THEN func ELSE cur[d]]
    ELSE cur

\* A call stack: every event drops the entries deeper than itself.
RecordMarker_Pop(cur, depth, func) ==
    LET kept == {d \in DOMAIN cur : d <= depth}
    IN  IF func # None
        THEN [d \in kept \cup {depth} |-> IF d = depth THEN func ELSE cur[d]]
        ELSE [d \in kept |-> cur[d]]

\* if func: current_func_by_depth[depth] = func
RecordMarker(cur, depth, func) ==
    IF func # None
    THEN [d \in DOMAIN cur \cup {depth} |-> IF d = depth THEN func ELSE cur[d]]
    ELSE cur

\* if func: func_calls[func] += 1
CountCall(calls, func) ==
    IF func # None THEN DictAdd(calls, func, 1) ELSE calls

\* The loop bound off by one: the delta before the last event is dropped.
DeltaToNext_SkipLast(evs, idx) ==
    IF idx + 2 < Len(evs)
    THEN Max(0, evs[idx + 2].ts - evs[idx + 1].ts)
    ELSE 0

\* The delta without max(0.0, ...).
DeltaToNext_NoClamp(evs, idx) ==
    IF idx + 1 < Len(evs)
    THEN evs[idx + 2].ts - evs[idx + 1].ts
    ELSE 0

\* dt of the event at (0-based) position idx
DeltaToNext(evs, idx) ==
    IF idx + 1 < Len(evs)
    THEN Max(0, evs[idx + 2].ts - evs[idx + 1].ts)
    ELSE 0

\* if af: func_time[af] += dt else: func_time["<no-func>"] += dt
Bucket(af) == IF af # None THEN af ELSE NO_FUNC

\* abs() in place of the clamp.
WallTime_Abs(evs) ==
    Max(evs[Len(evs)].ts - evs[1].ts, evs[1].ts - evs[Len(evs)].ts)

\* wall = max(0.0, last_ts - first_ts)
WallTime(evs) == Max(0, evs[Len(evs)].ts - evs[1].ts)

(***************************************************************************)
(* build_summary                                                           *)
(***************************************************************************)
\* Python's < on str: lexicographic by code point.
RECURSIVE StrLess(_, _)
StrLess(a, b) ==
    IF b = <<>> THEN FALSE
    ELSE IF a = <<>> THEN TRUE
    ELSE IF a[1] # b[1] THEN Ord(a[1]) < Ord(b[1])
    ELSE StrLess(Tail(a), Tail(b))

\* One summary tuple (name, t, pct, calls, avg); pct and avg as quotients.
SummaryRow(name, t, calls, w) ==
    [name |-> name, total |-> t,
     pct |-> IF w > 0 THEN <<t * 100, w>> ELSE <<0, 1>>,
     calls |-> calls,
     avg |-> IF calls # 0 THEN <<t, calls>> ELSE <<0, 1>>]

\* The key without the name: key=lambda x: -x[1].
KeyLess_NoTie(a, b) == -a.total < -b.total

\* key=lambda x: (-x[1], x[0]) compared with <
KeyLess(a, b) ==
    \/ -a.total < -b.total
    \/ (a.total = b.total /\ StrLess(a.name, b.name))

\* list.sort is stable: x goes behind every row whose key is not greater.
InsertRow(s, x) ==
    LET after == {n \in 1..Len(s) : KeyLess(x, s[n])}
        pos == IF after = {} THEN Len(s) + 1
               ELSE CHOOSE n \in after : \A m \in after : n <= m
    IN  SubSeq(s, 1, pos - 1) \o <<x>> \o SubSeq(s, pos, Len(s))

RECURSIVE SortRows(_)
SortRows(rows) ==
    IF rows = <<>> THEN <<>>
    ELSE InsertRow(SortRows(SubSeq(rows, 1, Len(rows) - 1)), rows[Len(rows)])

build_summary(ft, fc, w) ==
    SortRows([n \in 1..Len(ft) |->
                 SummaryRow(ft[n].k, ft[n].v, DictGet(fc, ft[n].k, 0), w)])

(***************************************************************************)
(* Renderers: what reaches stdout and the two files, line by line.         *)
(***************************************************************************)
\* summary[:top] for top >= 0
Take(s, n) == SubSeq(s, 1, Min(n, Len(s)))

RowLines(rows) ==
    [n \in 1..Len(rows) |-> <<"row", rows[n].name, rows[n].total, rows[n].pct,
                              rows[n].calls, rows[n].avg>>]

print_top(sm, w, top) == <<<<"total", w>>, <<"header">>>> \o RowLines(Take(sm, top))

save_csv(sm) == <<<<"header">>>> \o RowLines(sm)

save_md(sm, w, top) ==
    <<<<"total", w>>, <<"header">>, <<"rule">>>> \o RowLines(Take(sm, top))

\* --top's default
DefaultTop == 15

(***************************************************************************)
(* Inputs: trace logs of at most MaxLines lines.  A line is a well-formed  *)
(* trace line of depth 1..MaxDepth, with a timestamp of 0..MaxTs ticks and *)
(* one of the remainders of Rests, or a line LINE_RE rejects.  Logs        *)
(* shorter than MaxLines are arbitrary.  The longer logs have MaxLines     *)
(* lines and one last plain line that closes the last interval; they vary  *)
(* either the timestamps (in any order of time, all lines at depth 1) or   *)
(* the depths (under a clock that advances one tick per line).             *)
(***************************************************************************)
Pluses(n) == [k \in 1..n |-> "+"]

\* "0.00000t"
TsText(t) == <<"0", ".", "0", "0", "0", "0", "0", DigitSeq[t + 1]>>

\* A plain command, and commands traced inside the functions f and g.
Rests == {<<"x">>,
          <<"f", "(", ")", ":", " ", "x">>,
          <<"g", "(", ")", ":", " ", "x">>}

MkLine(depth, tsText, rest) ==
    Pluses(depth) \o <<" ">> \o tsText \o <<" ">> \o rest \o <<"\n">>

TraceLines == {MkLine(d, TsText(t), r) : d \in 1..MaxDepth, t \in 0..MaxTs, r \in Rests}

\* A timestamp with too few fractional digits: not a trace line.
BadLine == <<"+", " ", "0", ".", "0", "0", "0", "0", "0", " ", "x", "\n">>

SeqsUpTo(S, n) == UNION {[1..k -> S] : k \in 0..n}

\* The trace of the end-to-end example.
ExTs(d) == <<"1", "0", "0", "0", ".", d, "0", "0", "0", "0", "0">>
MainCmd == <<"m", "a", "i", "n">>
MainSetup == MainCmd \o <<"(", ")", ":", " ", "s", "e", "t", "u", "p">>
MainRun == MainCmd \o <<"(", ")", ":", " ", "r", "u", "n">>
ExampleLines == <<MkLine(1, ExTs("0"), MainCmd), MkLine(1, ExTs("1"), MainSetup),
                  MkLine(1, ExTs("4"), MainRun), MkLine(1, ExTs("9"), MainCmd)>>

\* Logs of MaxLines lines at depth 1, timestamps and remainders free,
\* followed by a plain line at the latest time.
TimeLogs ==
    {[k \in 1..MaxLines |-> MkLine(1, TsText(t[k]), r[k])]
         \o <<MkLine(1, TsText(MaxTs), <<"x">>)>> :
        t \in [1..MaxLines -> 0..MaxTs], r \in [1..MaxLines -> Rests]}

\* Logs of MaxLines lines with timestamps 0, 1, 2, ..., depths and remainders
\* free, followed by a plain line at depth 1.
DepthLogs ==
    {[k \in 1..MaxLines |-> MkLine(d[k], TsText(k - 1), r[k])]
         \o <<MkLine(1, TsText(MaxLines), <<"x">>)>> :
        d \in [1..MaxLines -> 1..MaxDepth], r \in [1..MaxLines -> Rests]}

Inputs ==
    SeqsUpTo(TraceLines \cup {BadLine}, MaxLines - 1)
    \cup TimeLogs \cup DepthLogs \cup {ExampleLines}

\* The command lines that are tried: the defaults, and every option given.
ArgChoices == {[top |-> DefaultTop, csv |-> FALSE, md |-> FALSE],
               [top |-> 1, csv |-> TRUE, md |-> TRUE]}

(***************************************************************************)
(* The program: main() and the loop of attribute_time.                     *)
(***************************************************************************)
VARIABLES pc, lines, parsed, idx, current_func_by_depth, func_time, func_calls,
          wall, summary, stdout, stderr, exit_code, csv_file, md_file

vars == <<pc, lines, parsed, idx, current_func_by_depth, func_time, func_calls,
          wall, summary, stdout, stderr, exit_code, csv_file, md_file>>

Init ==
    /\ pc = "start"
    /\ lines \in Inputs
    /\ parsed = <<>>
    /\ idx = 0
    /\ current_func_by_depth = <<>>
    /\ func_time = <<>>
    /\ func_calls = <<>>
    /\ wall = 0
    /\ summary = <<>>
    /\ stdout = <<>>
    /\ stderr = <<>>
    /\ exit_code = 0
    /\ csv_file = <<>>
    /\ md_file = <<>>

\* A trace of a single event taken for an empty one.
AfterParse_Short(evs) == IF Len(evs) <= 1 THEN "nomatch" ELSE "attribute"

\* if not parsed: the branch main takes
AfterParse(evs) == IF evs = <<>> THEN "nomatch" ELSE "attribute"

\* lines = read_lines(...); parsed = parse_log(lines); if not parsed: ...
ParseLog ==
    /\ pc = "start"
    /\ parsed' = parse_log(lines)
    /\ pc' = AfterParse(parsed')
    /\ UNCHANGED <<lines, idx, current_func_by_depth, func_time, func_calls, wall,
                   summary, stdout, stderr, exit_code, csv_file, md_file>>

\* print("No matching lines found. ...", file=sys.stderr); sys.exit(1)
ExitNoMatch ==
    /\ pc = "nomatch"
    /\ stderr' = Append(stderr, "No matching lines found.")
    /\ exit_code' = 1
    /\ pc' = "exit"
    /\ UNCHANGED <<lines, parsed, idx, current_func_by_depth, func_time, func_calls,
                   wall, summary, stdout, csv_file, md_file>>

\* One iteration of the loop of attribute_time, on the event parsed[idx].
AttributeStep ==
    /\ pc = "attribute"
    /\ idx < Len(parsed)
    /\ LET e == parsed[idx + 1]
           dt == DeltaToNext(parsed, idx)
       IN  /\ current_func_by_depth' = RecordMarker(current_func_by_depth, e.depth, e.func)
           /\ func_calls' = CountCall(func_calls, e.func)
           /\ func_time' = DictAdd(func_time,
                                   Bucket(active_func(current_func_by_depth', e.depth)), dt)
    /\ idx' = idx + 1
    /\ UNCHANGED <<pc, lines, parsed, wall, summary, stdout, stderr, exit_code,
                   csv_file, md_file>>

\* The loop is over: wall time, and return to main.
AttributeReturn ==
    /\ pc = "attribute"
    /\ idx = Len(parsed)
    /\ wall' = WallTime(parsed)
    /\ pc' = "summary"
    /\ UNCHANGED <<lines, parsed, idx, current_func_by_depth, func_time, func_calls,
                   summary, stdout, stderr, exit_code, csv_file, md_file>>

\* summary = build_summary(func_time, func_calls, wall)
BuildSummary ==
    /\ pc = "summary"
    /\ summary' = build_summary(func_time, func_calls, wall)
    /\ pc' = "render"
    /\ UNCHANGED <<lines, parsed, idx, current_func_by_depth, func_time, func_calls,
                   wall, stdout, stderr, exit_code, csv_file, md_file>>

\* print_top, and save_csv and save_md when --csv and --md are given.
Render ==
    /\ pc = "render"
    /\ \E args \in ArgChoices :
          /\ stdout' = stdout \o print_top(summary, wall, args.top)
                       \o (IF args.csv THEN <<<<"wrote csv">>>> ELSE <<>>)
                       \o (IF args.md THEN <<<<"wrote md">>>> ELSE <<>>)
          /\ csv_file' = IF args.csv THEN save_csv(summary) ELSE csv_file
          /\ md_file' = IF args.md THEN save_md(summary, wall, args.top) ELSE md_file
    /\ pc' = "exit"
    /\ UNCHANGED <<lines, parsed, idx, current_func_by_depth, func_time, func_calls,
                   wall, summary, stderr, exit_code>>

Next ==
    \/ ParseLog
    \/ ExitNoMatch
    \/ AttributeStep
    \/ AttributeReturn
    \/ BuildSummary
    \/ Render

Spec == Init /\ [][Next]_vars

(***************************************************************************)
(* Vocabulary of the properties.                                           *)
(***************************************************************************)
\* attribute_time has returned.
Attributed == pc \in {"summary", "render"} \/ (pc = "exit" /\ exit_code = 0)

\* build_summary has returned.
Summarised == pc = "render" \/ (pc = "exit" /\ exit_code = 0)

\* This step is an iteration of the loop of attribute_time.
IsStep == pc = "attribute" /\ idx < Len(parsed) /\ idx' = idx + 1

\* The event that iteration processes, and the delta to its successor.
StepEvent == parsed[idx + 1]
HasEarlierSuccessor(k) == k < Len(parsed) /\ parsed[k + 1].ts < parsed[k].ts
StepDelta ==
    IF idx + 1 < Len(parsed) /\ parsed[idx + 2].ts > parsed[idx + 1].ts
    THEN parsed[idx + 2].ts - parsed[idx + 1].ts
    ELSE 0

NonDecreasing(evs) == \A k \in 1..(Len(evs) - 1) : evs[k].ts <= evs[k + 1].ts

RECURSIVE SumTotals(_)
SumTotals(d) == IF d = <<>> THEN 0 ELSE d[1].v + SumTotals(Tail(d))

Total(ft, name) == DictGet(ft, name, 0)
Calls(fc, name) == DictGet(fc, name, 0)

LastMinusFirst == parsed[Len(parsed)].ts - parsed[1].ts
ClampedSpan == IF LastMinusFirst > 0 THEN LastMinusFirst ELSE 0

\* One tenth of a second, in ticks.
Tenth == Pow10(MinFracDigits - 1)

FName == <<"f">>
GName == <<"g">>
SetupName == <<"s", "e", "t", "u", "p">>
RunName == <<"r", "u", "n">>

\* The func_time entries the step leaves alone, and the one it adds dt to.
CreditsOnly(name, dt) ==
    /\ DictKeys(func_time') = DictKeys(func_time) \cup {name}
    /\ Total(func_time', name) = Total(func_time, name) + dt
    /\ \A o \in DictKeys(func_time) \ {name} : Total(func_time', o) = Total(func_time, o)

(***************************************************************************)
(* C1. Conservation.                                                       *)
(***************************************************************************)
\* C1 as stated: after attribute_time has processed a non-empty event sequence,
\* with timestamps in any order, the totals of all accumulators (the sentinel
\* included) add up to the wall time max(0, last - first).
C1_ConservationAnyOrder == Attributed => SumTotals(func_time) = wall

\* C1 amended: after attribute_time has processed a non-empty event sequence
\* whose timestamps never decrease, the totals of all accumulators (the
\* sentinel included) add up to the wall time max(0, last - first).
C1_ConservationInOrder ==
    (Attributed /\ NonDecreasing(parsed)) =>
        /\ wall = ClampedSpan
        /\ SumTotals(func_time) = ClampedSpan

C1_Witness ==
    /\ Attributed
    /\ NonDecreasing(parsed)
    /\ Len(parsed) >= 3
    /\ Len(func_time) >= 2
    /\ wall >= 2
    /\ SumTotals(func_time) = wall

(***************************************************************************)
(* C2. The end-to-end example.                                             *)
(***************************************************************************)
\* C2 as stated: on the four example lines the wall time is 0.9 s, <no-func>
\* holds 0.1 s, an accumulator named setup holds 0.3 s, one named run holds
\* 0.5 s, and setup and run have a call count of 1 each.
C2_ExampleAsStated ==
    (lines = ExampleLines /\ Attributed) =>
        /\ wall = 9 * Tenth
        /\ Total(func_time, NO_FUNC) = Tenth
        /\ SetupName \in DictKeys(func_time)
        /\ Total(func_time, SetupName) = 3 * Tenth
        /\ RunName \in DictKeys(func_time)
        /\ Total(func_time, RunName) = 5 * Tenth
        /\ Calls(func_calls, SetupName) = 1
        /\ Calls(func_calls, RunName) = 1

\* C2 amended: on the four example lines parse_log accepts all four lines and
\* takes the name main from both marker lines (the token in front of "():"),
\* the wall time is 0.9 s, <no-func> holds 0.1 s, the one other accumulator is
\* named main and holds 0.8 s with a call count of 2, and nothing is
\* accumulated or counted under setup or run.
C2_ExampleAsComputed ==
    (lines = ExampleLines /\ Attributed) =>
        /\ [k \in 1..Len(parsed) |-> parsed[k].func] = <<None, MainCmd, MainCmd, None>>
        /\ [k \in 1..Len(parsed) |-> parsed[k].depth] = <<1, 1, 1, 1>>
        /\ wall = 9 * Tenth
        /\ DictKeys(func_time) = {NO_FUNC, MainCmd}
        /\ Total(func_time, NO_FUNC) = Tenth
        /\ Total(func_time, MainCmd) = 8 * Tenth
        /\ DictKeys(func_calls) = {MainCmd}
        /\ Calls(func_calls, MainCmd) = 2

C2_Witness ==
    /\ lines = ExampleLines
    /\ pc = "exit"
    /\ exit_code = 0
    /\ Len(summary) = 2
    /\ summary[1].name = MainCmd

(***************************************************************************)
(* C3. Marker overwrite.                                                   *)
(***************************************************************************)
\* The positions up to k of the marker events at depth d.
MarkersAt(d, k) == {m \in 1..k : parsed[m].depth = d /\ parsed[m].func # None}
LastOf(S) == CHOOSE m \in S : \A o \in S : o <= m

\* C3: when the latest marker at the depth of the processed event declares G
\* and an earlier marker at that depth declared a different function F, the
\* event's delta is added to G's total and not to F's; and if the event is the
\* G marker itself, G's call count grows by exactly 1 and F's stays.
C3_MarkerOverwrite ==
    [][IsStep =>
        LET d == StepEvent.depth
            ms == MarkersAt(d, idx + 1)
        IN  ms # {} =>
              LET last == LastOf(ms)
                  G == parsed[last].func
                  Fs == {parsed[m].func : m \in ms} \ {G}
              IN  /\ G \in DictKeys(func_time')
                  /\ Total(func_time', G) = Total(func_time, G) + StepDelta
                  /\ \A F \in Fs : Total(func_time', F) = Total(func_time, F)
                  /\ (last = idx + 1 /\ Fs # {}) =>
                        /\ Calls(func_calls', G) = Calls(func_calls, G) + 1
                        /\ \A F \in Fs : Calls(func_calls', F) = Calls(func_calls, F)
      ]_vars

\* f then g declared at one depth, then a plain event at that depth: g holds
\* its own interval and the plain event's, f only its own.
C3_Witness ==
    /\ pc = "attribute"
    /\ idx = 3
    /\ Len(parsed) > 3
    /\ parsed[1].depth = parsed[2].depth
    /\ parsed[3].depth = parsed[2].depth
    /\ parsed[1].func = FName
    /\ parsed[2].func = GName
    /\ parsed[3].func = None
    /\ Total(func_time, FName) = 1
    /\ Total(func_time, GName) = 2
    /\ Calls(func_calls, FName) = 1
    /\ Calls(func_calls, GName) = 1

(***************************************************************************)
(* C4. Depth inheritance.                                                  *)
(***************************************************************************)
\* C4: the delta of an event at depth d goes to the function recorded at the
\* greatest depth k <= d that has an entry in the mapping, to <no-func> exactly
\* when no depth in 1..d has an entry, and to nothing else; entries deeper than
\* d play no part.
C4_DepthInheritance ==
    [][IsStep =>
        LET d == StepEvent.depth
            at == {k \in DOMAIN current_func_by_depth' : 1 <= k /\ k <= d}
        IN  /\ at = {} => CreditsOnly(NO_FUNC, StepDelta)
            /\ at # {} =>
                 /\ CreditsOnly(current_func_by_depth'[LastOf(at)], StepDelta)
                 /\ current_func_by_depth'[LastOf(at)] # NO_FUNC
      ]_vars

\* An event without a marker, at a depth with no entry, above two entries of
\* different functions: the deeper of the two took its interval.
C4_Witness ==
    /\ pc = "attribute"
    /\ idx = 3
    /\ Len(parsed) > 3
    /\ parsed[3].func = None
    /\ parsed[3].depth = 3
    /\ DOMAIN current_func_by_depth = {1, 2}
    /\ current_func_by_depth[1] # current_func_by_depth[2]
    /\ Total(func_time, current_func_by_depth[2]) = 2
    /\ Total(func_time, current_func_by_depth[1]) = 1

(***************************************************************************)
(* C5. Clamping.                                                           *)
(***************************************************************************)
\* C5: an event whose successor has an earlier timestamp adds exactly 0 to
\* every accumulator, and no accumulator is ever negative.
C5_Clamping ==
    /\ [][(IsStep /\ HasEarlierSuccessor(idx + 1)) =>
            \A n \in DictKeys(func_time') : Total(func_time', n) = Total(func_time, n)
         ]_vars
    /\ [](\A n \in 1..Len(func_time) : func_time[n].v >= 0)

\* Time was accumulated, then an event with an earlier successor was processed.
C5_Witness ==
    /\ pc = "attribute"
    /\ idx = 2
    /\ HasEarlierSuccessor(2)
    /\ parsed[2].ts > parsed[1].ts
    /\ SumTotals(func_time) = parsed[2].ts - parsed[1].ts

(***************************************************************************)
(* C6. Ordering of the summary.                                            *)
(***************************************************************************)
\* a sorts before b as Python strings.
LexBefore(a, b) ==
    \E k \in 1..(Len(b)) :
        /\ k <= Len(a) + 1
        /\ \A j \in 1..(k - 1) : a[j] = b[j]
        /\ (k = Len(a) + 1 \/ Ord(a[k]) < Ord(b[k]))

Reverse(sq) == [k \in 1..Len(sq) |-> sq[Len(sq) + 1 - k]]

\* C6: the summary has exactly one row per accumulated name, carrying that
\* name's total, in descending order of total and, among equal totals, in
\* ascending order of name; the accumulators taken in the opposite order of
\* creation give the same summary.
C6_Ordering ==
    Summarised =>
        /\ Len(summary) = Len(func_time)
        /\ {summary[n].name : n \in 1..Len(summary)} = DictKeys(func_time)
        /\ \A n \in 1..Len(summary) : summary[n].total = Total(func_time, summary[n].name)
        /\ \A m, n \in 1..Len(summary) :
              m < n => \/ summary[m].total > summary[n].total
                       \/ /\ summary[m].total = summary[n].total
                          /\ LexBefore(summary[m].name, summary[n].name)
        /\ build_summary(Reverse(func_time), func_calls, wall) = summary

KeyPos(d, key) == CHOOSE n \in 1..Len(d) : d[n].k = key

\* Three rows, the last two of equal total and created in the opposite order.
C6_Witness ==
    /\ Summarised
    /\ Len(summary) = 3
    /\ summary[1].total > summary[2].total
    /\ summary[2].total = summary[3].total
    /\ KeyPos(func_time, summary[2].name) > KeyPos(func_time, summary[3].name)

(***************************************************************************)
(* C7. Empty input.                                                        *)
(***************************************************************************)
NoLineMatches == \A k \in 1..Len(lines) : ~LINE_RE(RStripNewline(lines[k])).ok

\* C7: the accepted-event sequence is empty exactly when no line matches the
\* trace grammar; the run then goes nowhere but to the failure exit, with a
\* diagnostic on stderr and exit status 1, and nothing of attribute_time,
\* build_summary or the renderers is executed; when the sequence is not empty
\* the run never fails.
C7_EmptyInputFailure ==
    /\ (pc = "nomatch" \/ (pc = "attribute" /\ idx = 0)) =>
          (NoLineMatches <=> parsed = <<>>)
    /\ (parsed = <<>> /\ pc # "start") =>
          /\ pc \in {"nomatch", "exit"}
          /\ pc = "exit" => (exit_code = 1 /\ stderr # <<>>)
          /\ idx = 0
          /\ func_time = <<>>
          /\ func_calls = <<>>
          /\ current_func_by_depth = <<>>
          /\ summary = <<>>
          /\ stdout = <<>>
          /\ csv_file = <<>>
          /\ md_file = <<>>
    /\ parsed # <<>> =>
          /\ pc # "nomatch"
          /\ exit_code = 0
          /\ stderr = <<>>

\* A log that has lines, none of them a trace line, has failed.
C7_Witness ==
    /\ lines # <<>>
    /\ NoLineMatches
    /\ pc = "exit"
    /\ exit_code = 1
    /\ stderr # <<>>

(***************************************************************************)
(* C8. The mapping is never popped.                                        *)
(***************************************************************************)
\* C8: an event without a marker leaves the depth-to-function mapping as it
\* is, a marker event at depth d changes the entry of depth d and no other,
\* nothing else touches the mapping, so no entry is ever removed; and an event
\* at or below a depth that has an entry is not attributed to <no-func>.
C8_NeverPopped ==
    [][/\ ~IsStep => current_func_by_depth' = current_func_by_depth
       /\ IsStep =>
            LET e == StepEvent
                cur == current_func_by_depth
                new == current_func_by_depth'
            IN  /\ e.func = None => new = cur
                /\ e.func # None =>
                      /\ DOMAIN new = DOMAIN cur \cup {e.depth}
                      /\ new[e.depth] = e.func
                      /\ \A k \in DOMAIN cur \ {e.depth} : new[k] = cur[k]
                /\ DOMAIN cur \subseteq DOMAIN new
                /\ (\E k \in DOMAIN cur : k <= e.depth) =>
                      /\ DictKeys(func_time') \ DictKeys(func_time) # {NO_FUNC}
                      /\ Total(func_time', NO_FUNC) = Total(func_time, NO_FUNC)
      ]_vars

\* A function declared at depth 2, a plain event at depth 1, a plain event
\* back at depth 2: the function holds both intervals at depth 2.
C8_Witness ==
    /\ pc = "attribute"
    /\ idx = 3
    /\ Len(parsed) > 3
    /\ parsed[1].depth = 2 /\ parsed[1].func = GName
    /\ parsed[2].depth = 1 /\ parsed[2].func = None
    /\ parsed[3].depth = 2 /\ parsed[3].func = None
    /\ DOMAIN current_func_by_depth = {2}
    /\ Total(func_time, GName) = 2
    /\ Total(func_time, NO_FUNC) = 1

(***************************************************************************)
(* C9. Totals against wall time.                                           *)
(***************************************************************************)
PercentNumerators(sm) == [n \in 1..Len(sm) |-> [k |-> sm[n].name, v |-> sm[n].pct[1]]]

\* C9: the totals of all accumulators add up to no less than the wall time
\* max(0, last - first), and to exactly the wall time when the timestamps
\* never decrease; so the percentages of a summary add up to more than 100
\* only when some event has an earlier successor.
C9_TotalsCoverWall ==
    /\ Attributed =>
          /\ wall = ClampedSpan
          /\ SumTotals(func_time) >= ClampedSpan
          /\ NonDecreasing(parsed) => SumTotals(func_time) = ClampedSpan
    /\ (Summarised /\ wall > 0
        /\ SumTotals(PercentNumerators(summary)) > 100 * summary[1].pct[2]) =>
          \E k \in 1..Len(parsed) : HasEarlierSuccessor(k)

\* Percentages that add up to more than 100.
C9_Witness ==
    /\ Summarised
    /\ wall > 0
    /\ SumTotals(func_time) > wall
    /\ SumTotals(PercentNumerators(summary)) > 100 * wall

(***************************************************************************)
(* C10. Every declared function has a row.                                 *)
(***************************************************************************)
Declared(k) == {parsed[m].func : m \in 1..k} \ {None}

\* C10: every function counted by a marker has an accumulator, from the very
\* iteration that counts it; the summary has a row for every function the
\* trace declares, and a row with call count 0 (hence average 0) can only be
\* the <no-func> row, whose call count is always 0.
C10_DeclaredHaveRows ==
    /\ \A n \in 1..Len(func_calls) :
          func_calls[n].v >= 1 => func_calls[n].k \in DictKeys(func_time)
    /\ Declared(idx) = DictKeys(func_calls)
    /\ Summarised =>
          /\ Declared(Len(parsed)) \subseteq {summary[n].name : n \in 1..Len(summary)}
          /\ \A n \in 1..Len(summary) :
                /\ summary[n].calls = Calls(func_calls, summary[n].name)
                /\ summary[n].calls = 0 <=> summary[n].name = NO_FUNC
                /\ summary[n].calls = 0 => summary[n].avg = <<0, 1>>

\* A function declared only by the last event: a row of total 0 and one call,
\* next to a <no-func> row without calls.
C10_Witness ==
    /\ Summarised
    /\ Len(parsed) >= 2
    /\ parsed[Len(parsed)].func # None
    /\ \A m \in 1..(Len(parsed) - 1) : parsed[m].func # parsed[Len(parsed)].func
    /\ \E n \in 1..Len(summary) :
          /\ summary[n].name = parsed[Len(parsed)].func
          /\ summary[n].total = 0
          /\ summary[n].calls = 1
    /\ \E n \in 1..Len(summary) : summary[n].name = NO_FUNC /\ summary[n].calls = 0

====
